---- MODULE Spec2Model ----
(***************************************************************************)
(* relm-core: EventStream (src/relm-core/src/lib.rs).                      *)
(*                                                                         *)
(* One _EventStream record shared by every handle clone, Lock guard and    *)
(* observer closure.  All code runs on one thread; the only interleaving   *)
(* is re-entrancy: while emit() runs an observer callback, that callback   *)
(* may call any operation of the same stream.  The call stack of emit()    *)
(* invocations that are inside their observer loop is therefore part of    *)
(* the state.  A message is identified by the ordinal of the emit() call   *)
(* that carried it, so that every message is distinct.                     *)
(***************************************************************************)
EXTENDS Naturals, Sequences, FiniteSets

\* Bounds of the exploration.
MaxEmits == 2
MaxObservers == 2
MaxGuards == 2

\* The pull consumers (tasks of the external executor) that may poll.
Consumers == {"c1", "c2"}
\* Option::None in the task slot.
None == "none"

VARIABLES
    events,      \* _EventStream.events: VecDeque<MSG>
    locked,      \* _EventStream.locked
    observers,   \* _EventStream.observers: Vec<Rc<Fn(&MSG)>>, as observer ids
    task,        \* _EventStream.task: Option<Task>
    terminated,  \* _EventStream.terminated
    stack,       \* emit() calls inside their observer loop, innermost first
    guards,      \* number of Lock values alive (returned by lock(), not dropped)
    woken,       \* consumers whose Task::notify() was called since their last poll
    result,      \* per consumer, what its last poll returned
    emits,       \* history: one record per emit() call, in call order
    obsLog,      \* history: per observer, the messages it was invoked with
    polled,      \* history: the messages returned by polls, in order
    lastLockOp,  \* history: the last of lock()/drop(Lock) that ran
    reentered,   \* history: some accepted emit() was called from an observer callback
    panicked     \* a borrow of the RefCell was refused (BorrowError / BorrowMutError)

vars == <<events, locked, observers, task, terminated, stack, guards, woken,
          result, emits, obsLog, polled, lastLockOp, reentered, panicked>>

\* EventStream::new
Init ==
    /\ events = <<>>
    /\ locked = FALSE
    /\ observers = <<>>
    /\ task = None
    /\ terminated = FALSE
    /\ stack = <<>>
    /\ guards = 0
    /\ woken = {}
    /\ result = [c \in Consumers |-> "none"]
    /\ emits = <<>>
    /\ obsLog = [o \in 1..MaxObservers |-> <<>>]
    /\ polled = <<>>
    /\ lastLockOp = "none"
    /\ reentered = FALSE
    /\ panicked = FALSE

----------------------------------------------------------------------------
\* Helpers, one per statement of the source.

\* `if let Some(ref task) = stream.task { task.notify(); }`
NotifySkipped(w, t) == w
NotifyAll(w, t) == IF t = None THEN w ELSE Consumers
Notify(w, t) == IF t = None THEN w ELSE w \cup {t}

\* `events.push_back(event)`
PushFront(q, m) == <<m>> \o q
PushBack(q, m) == Append(q, m)

\* `events.pop_front()`: the message returned (q is non-empty)
PoppedBack(q) == q[Len(q)]
Popped(q) == Head(q)

\* `events.pop_front()`: what is left of the queue
AfterPopBack(q) == SubSeq(q, 1, Len(q) - 1)
AfterPop(q) == Tail(q)

\* `observer(&event)`: observer o is invoked with message m
Invoke(log, o, m) == [log EXCEPT ![o] = Append(@, m)]

\* `self.stream.borrow().observers[i].clone()` (i is 0-based in the source)
ObserverAtFirst(i) == observers[1]
ObserverAt(i) == observers[i]

\* `for i in 0..len`: the loop ends after the callback of the last index
LoopDoneEarly(f) == f.i + 1 >= f.len
LoopDoneLive(f) == f.i >= Len(observers)
LoopDone(f) == f.i >= f.len

----------------------------------------------------------------------------
\* The RefCell around _EventStream.  No borrow outlives the statement that
\* takes it, except while an observer callback runs: CallbackBorrow is the
\* borrow emit() holds during `observer(&event)`.  The Rc is cloned out of
\* the vector in a statement of its own (line 113), so that borrow has ended
\* when the callback is called (line 114).
CallbackBorrowShared == "shared"
CallbackBorrow == "none"

\* borrow() ("shared") or borrow_mut() ("mut") by code that runs inside the
\* callbacks of the emit() calls in `outer`: it panics on a conflict.
BorrowOk(outer, need) ==
    \/ outer = <<>>
    \/ CallbackBorrow = "none"
    \/ (CallbackBorrow = "shared" /\ need = "shared")

\* The panic of a refused borrow: nothing else changes.
BorrowPanics ==
    /\ panicked' = TRUE
    /\ UNCHANGED <<events, locked, observers, task, terminated, stack, guards,
                   woken, result, emits, obsLog, polled, lastLockOp, reentered>>

\* EventStream::observe
Observe ==
    /\ ~panicked
    /\ Len(observers) < MaxObservers
    /\ IF BorrowOk(stack, "mut")
         THEN /\ observers' = Append(observers, Len(observers) + 1)
              /\ UNCHANGED <<events, locked, task, terminated, stack, guards,
                             woken, result, emits, obsLog, polled, lastLockOp,
                             reentered, panicked>>
         ELSE BorrowPanics

\* EventStream::lock
LockCall ==
    /\ ~panicked
    /\ guards < MaxGuards
    /\ IF BorrowOk(stack, "mut")
         THEN /\ locked' = TRUE
              /\ guards' = guards + 1
              /\ lastLockOp' = "lock"
              /\ UNCHANGED <<events, observers, task, terminated, stack, woken,
                             result, emits, obsLog, polled, reentered, panicked>>
         ELSE BorrowPanics

\* Drop for Lock
DropLockKeepsFlag ==
    /\ ~panicked
    /\ guards > 0
    /\ locked' = locked
    /\ guards' = guards - 1
    /\ lastLockOp' = "release"
    /\ UNCHANGED <<events, observers, task, terminated, stack, woken,
                   result, emits, obsLog, polled, reentered, panicked>>

DropLockCounted ==
    /\ ~panicked
    /\ guards > 0
    /\ locked' = (guards > 1)
    /\ guards' = guards - 1
    /\ lastLockOp' = "release"
    /\ UNCHANGED <<events, observers, task, terminated, stack, woken,
                   result, emits, obsLog, polled, reentered, panicked>>

DropLock ==
    /\ ~panicked
    /\ guards > 0
    /\ IF BorrowOk(stack, "mut")
         THEN /\ locked' = FALSE
              /\ guards' = guards - 1
              /\ lastLockOp' = "release"
              /\ UNCHANGED <<events, observers, task, terminated, stack, woken,
                             result, emits, obsLog, polled, reentered, panicked>>
         ELSE BorrowPanics

\* EventStream::close
CloseToggles ==
    /\ ~panicked
    /\ terminated' = ~terminated
    /\ woken' = Notify(woken, task)
    /\ UNCHANGED <<events, locked, observers, task, stack, guards, result,
                   emits, obsLog, polled, lastLockOp, reentered, panicked>>

CloseSilent ==
    /\ ~panicked
    /\ terminated' = TRUE
    /\ UNCHANGED <<events, locked, observers, task, stack, guards, woken,
                   result, emits, obsLog, polled, lastLockOp, reentered,
                   panicked>>

CloseTakesHandle ==
    /\ ~panicked
    /\ terminated' = TRUE
    /\ woken' = Notify(woken, task)
    /\ task' = None
    /\ UNCHANGED <<events, locked, observers, stack, guards, result,
                   emits, obsLog, polled, lastLockOp, reentered, panicked>>

Close ==
    /\ ~panicked
    /\ IF BorrowOk(stack, "mut")
         THEN /\ terminated' = TRUE
              /\ woken' = Notify(woken, task)
              /\ UNCHANGED <<events, locked, observers, task, stack, guards,
                             result, emits, obsLog, polled, lastLockOp,
                             reentered, panicked>>
         ELSE BorrowPanics

\* The test that guards the body of emit(): `if !self.stream.borrow().locked`
SuppressedOrClosed == locked \/ terminated
Suppressed == locked

\* EventStream::emit, from its entry up to the first observer callback (or to
\* its end when it is suppressed or there is no observer).
Emit ==
    /\ ~panicked
    /\ Len(emits) < MaxEmits
    /\ LET m == Len(emits) + 1
           len == Len(observers)
           need == IF ~Suppressed /\ len = 0 THEN "mut" ELSE "shared"
       IN  IF BorrowOk(stack, need)
             THEN /\ emits' = Append(emits, [acc |-> ~Suppressed,
                                             len |-> IF Suppressed THEN 0 ELSE len])
                  /\ reentered' = (reentered \/ (~Suppressed /\ stack # <<>>))
                  /\ IF Suppressed
                       THEN UNCHANGED <<events, woken, stack, obsLog>>
                       ELSE /\ woken' = Notify(woken, task)
                            /\ IF len = 0
                                 THEN /\ events' = PushBack(events, m)
                                      /\ UNCHANGED <<stack, obsLog>>
                                 ELSE /\ stack' = <<[event |-> m, len |-> len,
                                                     i |-> 1]>> \o stack
                                      /\ obsLog' = Invoke(obsLog, ObserverAt(1), m)
                                      /\ UNCHANGED events
                  /\ UNCHANGED <<locked, observers, task, terminated, guards,
                                 result, polled, lastLockOp, panicked>>
             ELSE BorrowPanics

\* EventStream::emit, from the return of an observer callback on: the next
\* iteration of the loop, or the push_back that ends the call.
ObserverReturn ==
    /\ ~panicked
    /\ stack # <<>>
    /\ LET top == Head(stack)
           need == IF LoopDone(top) THEN "mut" ELSE "shared"
       IN  IF BorrowOk(Tail(stack), need)
             THEN /\ IF ~LoopDone(top)
                       THEN /\ stack' = [stack EXCEPT ![1].i = top.i + 1]
                            /\ obsLog' = Invoke(obsLog, ObserverAt(top.i + 1),
                                                top.event)
                            /\ UNCHANGED events
                       ELSE /\ stack' = Tail(stack)
                            /\ events' = PushBack(events, top.event)
                            /\ UNCHANGED obsLog
                  /\ UNCHANGED <<locked, observers, task, terminated, guards,
                                 woken, result, emits, polled, lastLockOp,
                                 reentered, panicked>>
             ELSE BorrowPanics

\* EventStream::is_terminated
is_terminatedAndDrained == terminated /\ events = <<>>
is_terminated == terminated

\* `stream.task = None` after a message was popped
SlotKept(t) == t
SlotAfterItem(t) == None

\* Stream::poll for EventStream, called in the task of consumer c
Poll(c) ==
    /\ ~panicked
    /\ IF BorrowOk(stack, IF is_terminated THEN "shared" ELSE "mut")
         THEN /\ woken' = woken \ {c}
              /\ IF is_terminated
                   THEN /\ result' = [result EXCEPT ![c] = "complete"]
                        /\ UNCHANGED <<events, task, polled>>
                   ELSE IF events # <<>>
                     THEN /\ events' = AfterPop(events)
                          /\ polled' = Append(polled, Popped(events))
                          /\ task' = SlotAfterItem(task)
                          /\ result' = [result EXCEPT ![c] = "item"]
                     ELSE /\ task' = c
                          /\ result' = [result EXCEPT ![c] = "notready"]
                          /\ UNCHANGED <<events, polled>>
              /\ UNCHANGED <<locked, observers, terminated, stack, guards,
                             emits, obsLog, lastLockOp, reentered, panicked>>
         ELSE BorrowPanics

Next ==
    \/ Observe
    \/ LockCall
    \/ DropLock
    \/ Close
    \/ Emit
    \/ ObserverReturn
    \/ \E c \in Consumers : Poll(c)

Spec == Init /\ [][Next]_vars

----------------------------------------------------------------------------
\* One pull consumer driven by a cooperative executor.  The executor polls
\* the consumer's task from its own loop, so never while emit() is running a
\* callback; it polls a task that is new, that just received an item (the
\* consumer loops until the stream is not ready) or whose wake handle was
\* invoked, and it drops a task whose stream reported complete.
TheConsumer == "c1"

Runnable(c) == result[c] \in {"none", "item"} \/ c \in woken

SchedPoll ==
    /\ stack = <<>>
    /\ result[TheConsumer] # "complete"
    /\ Runnable(TheConsumer)
    /\ Poll(TheConsumer)

LiveNext ==
    \/ Observe
    \/ LockCall
    \/ DropLock
    \/ Close
    \/ Emit
    \/ ObserverReturn
    \/ SchedPoll

\* Callbacks return, and the executor eventually polls a runnable task.
SpecLive ==
    /\ Init
    /\ [][LiveNext]_vars
    /\ WF_vars(ObserverReturn)
    /\ WF_vars(SchedPoll)

----------------------------------------------------------------------------
\* Vocabulary of the properties.

Range(s) == {s[k] : k \in 1..Len(s)}
Count(s, x) == Cardinality({k \in 1..Len(s) : s[k] = x})
Increasing(s) == \A j, k \in 1..Len(s) : j < k => s[j] < s[k]

\* The emit() calls made so far, the accepted (not suppressed) ones, the ones
\* still inside their observer loop and the ones that returned.
Calls == 1..Len(emits)
Accepted == {e \in Calls : emits[e].acc}
Frames == Range(stack)
InDispatch == {f.event : f \in Frames}
Done(e) == e \in Calls /\ e \notin InDispatch
\* Every message that reached the queue: those already pulled, then those queued.
Queued == polled \o events
\* emit() call e has invoked observer o
Reached(e, o) ==
    /\ e \in Accepted
    /\ o <= emits[e].len
    /\ \A f \in Frames : f.event = e => o <= f.i
ObserverIds == 1..Len(observers)

----------------------------------------------------------------------------
\* C1: every emit() made while the stream is unlocked invokes each observer
\* that was registered when it was called exactly once (an emit() still in
\* its loop has reached the observers up to its index, each once), no
\* observer is invoked with anything else, and as long as the emit() calls
\* follow one another (none is made from inside a callback) every observer
\* sees the messages in the order of the calls.
C1_ObserversReceiveEachOnceInOrder ==
    /\ \A o \in DOMAIN obsLog : \A e \in 1..MaxEmits :
          Count(obsLog[o], e) = IF Reached(e, o) THEN 1 ELSE 0
    /\ \A o \in DOMAIN obsLog : Range(obsLog[o]) \subseteq Accepted
    /\ ~reentered => \A o \in DOMAIN obsLog : Increasing(obsLog[o])

\* Two observers, then two emit() calls one after the other: both observers
\* have seen message 1, then message 2.
C1_Witness ==
    /\ ~reentered
    /\ stack = <<>>
    /\ Len(observers) = 2
    /\ emits = <<[acc |-> TRUE, len |-> 2], [acc |-> TRUE, len |-> 2]>>
    /\ obsLog[1] = <<1, 2>>
    /\ obsLog[2] = <<1, 2>>

\* C2: an emit() call made while at least one Lock guard is alive is a
\* complete no-op: no observer is invoked, the queue is unchanged and no
\* consumer is woken.
C2_NoOpWhileGuardAlive ==
    [][(guards > 0 /\ Emit) => UNCHANGED <<events, obsLog, woken, stack>>]_vars

\* C3: dropping a guard clears the flag, and it stays clear until the next
\* lock(); an emit() that finds the flag clear is accepted, and once it has
\* returned it has invoked every observer registered at its call and its
\* message has been appended; a message suppressed by the flag is never
\* delivered to an observer, queued or pulled.
C3_AcceptedDelivered ==
    /\ lastLockOp = "release" => ~locked
    /\ \A e \in Calls \ Accepted :
          /\ e \notin Range(Queued)
          /\ \A o \in DOMAIN obsLog : e \notin Range(obsLog[o])
    /\ \A e \in Accepted : Done(e) =>
          /\ Count(Queued, e) = 1
          /\ \A o \in 1..emits[e].len : e \in Range(obsLog[o])

\* C3: the state part above in every reachable state, the release clearing
\* the flag, and the acceptance of an emit() that finds the flag clear.
C3_ReleaseRestoresEmission ==
    /\ []C3_AcceptedDelivered
    /\ [][DropLock => ~locked']_vars
    /\ [][(Emit /\ ~locked) => emits'[Len(emits')].acc]_vars

\* lock(); emit (suppressed); drop(guard); emit: only the second message is
\* queued and only it was seen by the observer.
C3_Witness ==
    /\ emits = <<[acc |-> FALSE, len |-> 0], [acc |-> TRUE, len |-> 1]>>
    /\ lastLockOp = "release"
    /\ stack = <<>>
    /\ events = <<2>>
    /\ obsLog[1] = <<2>>

\* C4: the messages pulled so far followed by the messages still queued are
\* the accepted emit() calls that have returned, each once; as long as the
\* emit() calls follow one another they are in the order of the calls.  A
\* poll of a non-terminated stream returns the oldest queued message and
\* removes it, and reports not ready, returning nothing, when the queue is
\* empty.
C4_QueueIsAcceptedInOrder ==
    /\ Range(Queued) = {e \in Accepted : Done(e)}
    /\ \A e \in Range(Queued) : Count(Queued, e) = 1
    /\ ~reentered => Increasing(Queued)

\* C4: the state part above in every reachable state, and the outcome of
\* each poll of a non-terminated stream.
C4_Fifo ==
    /\ []C4_QueueIsAcceptedInOrder
    /\ [][\A c \in Consumers : (Poll(c) /\ ~terminated) =>
            IF events # <<>>
              THEN /\ result'[c] = "item"
                   /\ polled' = Append(polled, Head(events))
                   /\ events' = Tail(events)
              ELSE /\ result'[c] = "notready"
                   /\ polled' = polled
                   /\ events' = events]_vars

\* Two emit() calls, then three polls: message 1, message 2, not ready.
C4_Witness ==
    /\ ~reentered
    /\ ~terminated
    /\ polled = <<1, 2>>
    /\ events = <<>>
    /\ result["c1"] = "notready"

\* C5: terminated never goes back to false, and every poll of a terminated
\* stream reports complete, leaves the queue as it is and returns no message,
\* whatever the queue holds.
C5_TerminationPermanent ==
    /\ [][terminated => terminated']_vars
    /\ [][\A c \in Consumers : (Poll(c) /\ terminated) =>
            /\ result'[c] = "complete"
            /\ events' = events
            /\ polled' = polled]_vars

\* A message queued before close() and one emitted after it are both still
\* in the queue after a poll has reported complete.
C5_Witness ==
    /\ terminated
    /\ events = <<1, 2>>
    /\ polled = <<>>
    /\ result["c1"] = "complete"

\* A state as close() leaves it: terminated, and the consumer whose wake
\* handle is stored (if any) has been notified and has not polled since.
Closed == terminated /\ (task # None => task \in woken)

Resumable(c) == result[c] = "notready" /\ task = c /\ c \in woken

\* C7: a poll of an empty, non-terminated stream reports not ready and stores
\* the caller's wake handle; an accepted emit() and a close() invoke the
\* stored handle; and once the consumer has been woken that way and the
\* emit() has returned, the stream is terminated or the queue is non-empty,
\* so that the consumer's next poll reports complete (after close()) or
\* returns the oldest message appended since it suspended (after emit()).
C7_WokenFindsSomething ==
    \A c \in Consumers : (Resumable(c) /\ stack = <<>>) =>
        (terminated \/ events # <<>>)

\* C7: the state part above in every reachable state, and the three steps:
\* the suspending poll, the wake-up, and the poll after the wake-up.
C7_SuspendResume ==
    /\ []C7_WokenFindsSomething
    /\ [][\A c \in Consumers : (Poll(c) /\ ~terminated /\ events = <<>>) =>
            /\ result'[c] = "notready"
            /\ task' = c
            /\ c \notin woken']_vars
    /\ [][((Close \/ (Emit /\ ~locked)) /\ task # None) =>
            task \in woken']_vars
    /\ [][\A c \in Consumers : (Poll(c) /\ Resumable(c) /\ stack = <<>>) =>
            IF terminated
              THEN result'[c] = "complete"
              ELSE /\ result'[c] = "item"
                   /\ polled' = Append(polled, Head(events))]_vars

\* The consumer polled the empty stream, then emit() was called: the handle
\* has been invoked and the message is the only one queued.
C7_Witness ==
    /\ Resumable("c1")
    /\ stack = <<>>
    /\ ~terminated
    /\ events = <<1>>
    /\ polled = <<>>

C9_StrictCallOrder ==
    /\ Increasing(Queued)
    /\ \A o \in DOMAIN obsLog : Increasing(obsLog[o])

\* C9 as amended: emit() calls that follow one another are delivered to every
\* observer and queued in call order, and the first observer always sees
\* call order.  A reentrant emit() (called from a callback of an emit() still
\* in its loop) is completed first: when it has returned it has been
\* delivered to all its observers and queued, while the enclosing message is
\* not queued and has not reached the observers after the one whose callback
\* is running; so it precedes the enclosing message in the queue and at
\* those observers.
C9_NestedCompletesFirst ==
    /\ ~reentered => C9_StrictCallOrder
    /\ Increasing(obsLog[1])
    /\ \A f \in Frames :
          /\ f.event \notin Range(Queued)
          /\ \A o \in DOMAIN obsLog : o > f.i => f.event \notin Range(obsLog[o])
          /\ \A e \in Accepted : (e > f.event /\ Done(e)) =>
                /\ e \in Range(Queued)
                /\ \A o \in 1..emits[e].len : e \in Range(obsLog[o])

\* emit() 2 was called by the first observer while it handled message 1:
\* the queue and the second observer have 2 before 1.
C9_Witness ==
    /\ reentered
    /\ stack = <<>>
    /\ events = <<2, 1>>
    /\ obsLog[1] = <<1, 2>>
    /\ obsLog[2] = <<2, 1>>

\* C10: while an emit() is in its observer loop its message is not in the
\* queue and has not been pulled; every message that reached the queue has
\* been seen by every observer registered when its emit() was called.
C10_ObserversBeforeQueue ==
    /\ \A f \in Frames : f.event \notin Range(Queued)
    /\ \A m \in Range(Queued) : \A o \in 1..emits[m].len :
          Count(obsLog[o], m) = 1

\* Message 1 has been queued after both observers were invoked with it, and
\* message 2 is with the second observer, not yet queued.
C10_Witness ==
    /\ events = <<1>>
    /\ obsLog[1] = <<1, 2>>
    /\ obsLog[2] = <<1, 2>>
    /\ stack = <<[event |-> 2, len |-> 2, i |-> 2]>>

\* The observers that have been invoked with message e.
InvokedWith(e) == {o \in DOMAIN obsLog : e \in Range(obsLog[o])}

\* C11 (state part): an emit() in its loop has invoked exactly the observers
\* up to its index, and its bound is the count taken at its call; an emit()
\* that returned has invoked exactly the observers registered at its call,
\* whatever was registered since.
C11_PassIsSnapshot ==
    /\ \A f \in Frames :
          /\ f.len = emits[f.event].len
          /\ f.i <= f.len
          /\ InvokedWith(f.event) = 1..f.i
    /\ \A e \in Accepted : Done(e) => InvokedWith(e) = 1..emits[e].len
    /\ \A e \in Accepted : emits[e].len <= Len(observers)

\* C11: the state part above in every reachable state; an accepted emit()
\* takes as its bound the number of observers registered at its call (so it
\* covers an observer registered earlier by a callback of an enclosing
\* pass); and observers are invoked in registration order, each after all
\* the observers before it.
C11_DispatchSnapshot ==
    /\ []C11_PassIsSnapshot
    /\ [][(Emit /\ ~locked) => emits'[Len(emits')].len = Len(observers)]_vars
    /\ [][\A o \in DOMAIN obsLog : (obsLog'[o] # obsLog[o]) =>
            LET m == obsLog'[o][Len(obsLog'[o])]
            IN  /\ obsLog'[o] = Append(obsLog[o], m)
                /\ \A p \in DOMAIN obsLog :
                      (m \in Range(obsLog'[p])) <=> (p <= o)]_vars

\* The first observer registered a second one while it handled message 1 and
\* then called emit(): message 2 reached both, message 1 only the first.
C11_Witness ==
    /\ stack = <<>>
    /\ observers = <<1, 2>>
    /\ emits = <<[acc |-> TRUE, len |-> 1], [acc |-> TRUE, len |-> 2]>>
    /\ obsLog[1] = <<1, 2>>
    /\ obsLog[2] = <<2>>
    /\ events = <<2, 1>>

\* C12: a message is appended to the queue only in a state where locked is
\* false.
C12_QueueGrowsOnlyUnlocked ==
    [][(Len(events') > Len(events)) => ~locked]_vars

\* C13 (state part): every emit() accepted while a guard was alive or not has
\* been delivered once it returned.
C13_AcceptedReachesAll ==
    \A e \in Accepted : Done(e) =>
        /\ e \in Range(Queued)
        /\ InvokedWith(e) = 1..emits[e].len

Starved(c) == result[c] = "notready" /\ c \notin woken /\ task # c

\* C14: a poll of an empty, non-terminated stream puts the caller's handle
\* in the one slot, whoever was there; a consumer is woken only while its
\* own handle is the stored one, and only its own poll stores it; so a
\* suspended consumer whose handle was replaced stays unwoken through every
\* emit() and close(), until it polls again by itself.
C14_SingleSlot ==
    /\ [][\A c \in Consumers : (Poll(c) /\ ~terminated /\ events = <<>>) =>
            task' = c]_vars
    /\ [][\A c \in Consumers : (c \notin woken /\ c \in woken') =>
            (task = c /\ (Close \/ Emit))]_vars
    /\ [][\A c \in Consumers : (task # c /\ task' = c) => Poll(c)]_vars
    /\ [][\A c \in Consumers : (Starved(c) /\ ~Poll(c)) => Starved(c)']_vars

\* c1 suspended, c2 polled the empty stream after it; an emit() and a close()
\* later c2 has been woken and c1 has not, with a message queued.
C14_Witness ==
    /\ Starved("c1")
    /\ task = "c2"
    /\ result["c2"] = "notready"
    /\ "c2" \in woken
    /\ events = <<1>>
    /\ terminated
    /\ stack = <<>>

\* C15: a poll of a non-terminated stream either returns the oldest queued
\* message, removes it and leaves the slot empty, or, the queue being empty,
\* stores the caller's handle and reports not ready; a poll that reports not
\* ready has stored the caller's handle; a poll returns an item, not ready or
\* complete, never an error.
C15_PollOutcomes ==
    /\ [](\A c \in Consumers :
            result[c] \in {"none", "item", "notready", "complete"})
    /\ [][\A c \in Consumers : (Poll(c) /\ ~terminated) =>
            IF events # <<>>
              THEN /\ result'[c] = "item"
                   /\ polled' = Append(polled, Head(events))
                   /\ events' = Tail(events)
                   /\ task' = None
              ELSE /\ result'[c] = "notready"
                   /\ task' = c
                   /\ UNCHANGED <<events, polled>>]_vars
    /\ [][\A c \in Consumers : (Poll(c) /\ result'[c] = "notready") =>
            (task' = c /\ events = <<>> /\ ~terminated)]_vars

\* c2 suspended on the empty stream, then a message was emitted and c1 pulled
\* it: the slot that held c2's handle is empty.
C15_Witness ==
    /\ ~terminated
    /\ result["c1"] = "item"
    /\ result["c2"] = "notready"
    /\ "c2" \in woken
    /\ task = None
    /\ polled = <<1>>
    /\ events = <<>>

\* C16: an emit() called on a terminated, unlocked stream does what it does
\* on an open one: it is accepted, notifies the stored task, takes the
\* number of registered observers as its bound and invokes the first, or
\* without observers appends its message at once; its loop goes on to every
\* observer and ends with the append; terminated stays as it is.
C16_EmitAfterClose ==
    /\ [][(Emit /\ terminated /\ ~locked) =>
            /\ emits'[Len(emits')] = [acc |-> TRUE, len |-> Len(observers)]
            /\ woken' = Notify(woken, task)
            /\ terminated'
            /\ IF Len(observers) = 0
                 THEN /\ events' = Append(events, Len(emits'))
                      /\ stack' = stack
                 ELSE /\ stack' = <<[event |-> Len(emits'),
                                     len |-> Len(observers), i |-> 1]>> \o stack
                      /\ obsLog'[1] = Append(obsLog[1], Len(emits'))
                      /\ events' = events]_vars
    /\ [][(ObserverReturn /\ terminated) =>
            LET top == Head(stack)
            IN  IF top.i < top.len
                  THEN /\ obsLog'[top.i + 1] =
                             Append(obsLog[top.i + 1], top.event)
                       /\ events' = events
                  ELSE /\ events' = Append(events, top.event)
                       /\ stack' = Tail(stack)]_vars
    /\ [](terminated => \A e \in Accepted : Done(e) =>
            (e \in Range(Queued) /\ InvokedWith(e) = 1..emits[e].len))

\* A consumer received complete after close(); the emit() that followed has
\* invoked its wake handle, the observer, and queued the message.
C16_Witness ==
    /\ terminated
    /\ result["c1"] = "complete"
    /\ task = "c1"
    /\ "c1" \in woken
    /\ stack = <<>>
    /\ emits = <<[acc |-> TRUE, len |-> 1]>>
    /\ obsLog[1] = <<1>>
    /\ events = <<1>>

\* C17: no borrow of the RefCell is ever refused, whatever is called from
\* inside an observer callback.
C17_NoBorrowConflict == ~panicked

\* Inside the callback of emit() 1 the stream was locked, closed, polled, a
\* second observer was registered, and emit() 2 was called and is in its loop.
C17_Witness ==
    /\ ~panicked
    /\ Len(stack) = 2
    /\ emits = <<[acc |-> TRUE, len |-> 1], [acc |-> TRUE, len |-> 2]>>
    /\ observers = <<1, 2>>
    /\ terminated
    /\ guards = 1
    /\ lastLockOp = "release"
    /\ result["c1"] = "complete"
    /\ result["c2"] = "notready"

\* Only TheConsumer has ever polled.
SingleConsumer == \A c \in Consumers \ {TheConsumer} : result[c] = "none"

\* C18: with a single pull consumer, whenever its last poll reported not
\* ready and its wake handle has not been invoked since, the queue is empty
\* and the stream is not terminated.
C18_NoLostWakeup ==
    (SingleConsumer /\ result[TheConsumer] = "notready"
                    /\ TheConsumer \notin woken) =>
        (events = <<>> /\ ~terminated)

\* C19: the slot is emptied only by a poll that returns a message; emit(),
\* its observer loop, close(), observe(), lock(), a guard's release and a
\* poll that reports complete leave the slot as it is; and every accepted
\* emit() and every close() invokes the stored handle, whatever its consumer
\* received last and whether or not it was already woken.
C19_SlotFrame ==
    /\ [][(task # None /\ task' = None) =>
            \E c \in Consumers : Poll(c) /\ result'[c] = "item"]_vars
    /\ [][(Emit \/ ObserverReturn \/ Close \/ Observe \/ LockCall \/ DropLock)
            => task' = task]_vars
    /\ [][\A c \in Consumers : (Poll(c) /\ terminated) => task' = task]_vars
    /\ [][((Close \/ (Emit /\ ~locked)) /\ task # None) =>
            (task' = task /\ task \in woken' /\ woken \subseteq woken')]_vars

\* The consumer received complete; its handle is still stored and a later
\* close() or emit() has invoked it again.
C19_Witness ==
    /\ terminated
    /\ result["c1"] = "complete"
    /\ task = "c1"
    /\ "c1" \in woken
    /\ events = <<>>
    /\ emits = <<>>

\* C20 (state part): the messages pulled and the messages queued are as many
\* as the accepted emit() calls that returned; no message was pulled twice,
\* none is both pulled and queued, none is queued twice.
C20_Conserved ==
    /\ Len(polled) + Len(events) = Cardinality({e \in Accepted : Done(e)})
    /\ \A m \in 1..MaxEmits : Count(polled, m) + Count(events, m) <= 1

\* C20: the state part above in every reachable state, and observe(), lock(),
\* a guard's release and close() change neither the queue nor what was pulled.
C20_Conservation ==
    /\ []C20_Conserved
    /\ [][(Observe \/ LockCall \/ DropLock \/ Close) =>
            UNCHANGED <<events, polled>>]_vars

\* Of two accepted messages one was pulled by c1 and, after c2 had polled
\* too, the other is still queued behind a closed stream.
C20_Witness ==
    /\ Accepted = {1, 2}
    /\ stack = <<>>
    /\ polled = <<1>>
    /\ events = <<2>>
    /\ result["c1"] = "item"
    /\ result["c2"] = "complete"

====
